---- MODULE Spec2Model ----
(***************************************************************************)
(* RaggedArray of datashader/datatypes.py: a column of variable-length    *)
(* 1-D numeric arrays packed into one flat buffer (flat_array) plus one   *)
(* start offset per element (start_indices).                              *)
(*                                                                         *)
(* A numpy array is modelled by its contents (a sequence), and where the  *)
(* code depends on it by its dtype (kind and bit width), its rank and the *)
(* identity of its buffer.  Array values are integers; no operation of    *)
(* the class does arithmetic on them.                                     *)
(***************************************************************************)
EXTENDS Integers, Sequences, FiniteSets, TLC

\* ------------------------------------------------------------------------
\* Bounds of the model
\* ------------------------------------------------------------------------
MaxN == 2           \* elements of an input sequence / of a raw offsets array
MaxElemLen == 2     \* length of one input element array

Vals == {1, 2}                  \* the numbers stored in arrays
MaxFlat == MaxN * MaxElemLen    \* longest flat_array a step may produce

\* ------------------------------------------------------------------------
\* numpy scalars and helpers
\* ------------------------------------------------------------------------
Min(a, b) == IF a <= b THEN a ELSE b
Max(a, b) == IF a >= b THEN a ELSE b
Abs(a) == IF a >= 0 THEN a ELSE -a

\* The float NaN when it is stored inside an array (never equal to itself).
NaNScalar == -1

\* Elements as Python sees them: a 1-D array, np.nan, or None.
Arr(s) == [kind |-> "array", array |-> s]
NaN == [kind |-> "nan", array |-> <<>>]
None == [kind |-> "None", array |-> <<>>]

\* datatypes.py:129-130
missing(v) == v.kind = "None" \/ v.kind = "nan"

\* The unsigned widths tried for start_indices, datatypes.py:181
Widths == <<8, 16, 32, 64>>

\* np.iinfo('uint<nbits>').max >= x.  Model integers stay below 2^31, so
\* every model integer fits uint32 and uint64.
Fits(x, nbits) == nbits >= 32 \/ x <= 2^nbits - 1

\* Storing x into an unsigned array of the given width (wraps modulo 2^w).
Wrap(x, nbits) == IF nbits >= 32 THEN x ELSE x % (2^nbits)

\* a[start:stop] of numpy/Python for 0 <= start, stop (clamped, empty when
\* start >= stop).
PySlice(a, start, stop) == SubSeq(a, Min(start, Len(a)) + 1, Min(stop, Len(a)))

\* ------------------------------------------------------------------------
\* Containers and results
\* ------------------------------------------------------------------------
\* A RaggedArray: _start_indices (contents, unsigned width, buffer id) and
\* _flat_array (contents, buffer id).
RA(start_indices, sdtype, sbuf, flat_array, fbuf) ==
    [start_indices |-> start_indices, sdtype |-> sdtype, sbuf |-> sbuf,
     flat_array |-> flat_array, fbuf |-> fbuf]

NoRA == RA(<<>>, 0, -1, <<>>, -1)

Ok(ra) == [err |-> "none", msg |-> "", ra |-> ra]
Raise(err, msg) == [err |-> err, msg |-> msg, ra |-> NoRA]

\* Buffer ids not used by the receiver: what an allocation returns.
FreshS(c) == CHOOSE b \in 0..5 : b \notin {c.sbuf, c.fbuf}
FreshF(c) == CHOOSE b \in 0..5 : b \notin {c.sbuf, c.fbuf, FreshS(c)}

\* __len__
RaggedLen(c) == Len(c.start_indices)

\* ------------------------------------------------------------------------
\* _validate_ragged_properties and the dict branch of __init__
\* ------------------------------------------------------------------------
\* A raw pair: the two ndarrays of the dict, each with dtype kind, width,
\* rank (ndim), contents and buffer id.
RawPair(start_indices, skind, sbits, sndim, sbuf, flat_array, fndim, fbuf) ==
    [start_indices |-> start_indices, skind |-> skind, sbits |-> sbits,
     sndim |-> sndim, sbuf |-> sbuf,
     flat_array |-> flat_array, fndim |-> fndim, fbuf |-> fbuf]

\* invalid_inds[:10]
ReportLimit == 10

\* start_indices[mask] with a boolean mask: numpy refuses a mask whose
\* length is not the array's length (IndexError).
BoolIndexFails(a, mask) == Len(mask) # Len(a)

\* A faulty validation that leaves out the check of the offsets against
\* len(flat_array).
ValidateWithoutBoundCheck(data) ==
    IF data.skind # "u" \/ data.sndim # 1 THEN "ValueError"
    ELSE IF data.fndim # 1 THEN "ValueError"
    ELSE "none"

\* The exception _validate_ragged_properties raises on data, or "none".
\* (Both values of the dict are ndarrays here.)
validate_ragged_properties(data) ==
    IF data.skind # "u" \/ data.sndim # 1 THEN "ValueError"
    ELSE IF data.fndim # 1 THEN "ValueError"
    ELSE LET start_indices == data.start_indices
             invalid_inds == [i \in 1..Len(start_indices) |->
                                 start_indices[i] > Len(data.flat_array)]
         IN IF \E i \in 1..Len(invalid_inds) : invalid_inds[i]
            THEN IF BoolIndexFails(start_indices,
                                   PySlice(invalid_inds, 0, ReportLimit))
                 THEN "IndexError"
                 ELSE "ValueError"
            ELSE "none"

\* RaggedArray(dict(start_indices=..., flat_array=...)), datatypes.py:162-169:
\* the two arrays are kept as they are (same buffers).
FromRawPair(data) ==
    LET e == validate_ragged_properties(data)
    IN IF e # "none" THEN Raise(e, "validate")
       ELSE Ok(RA(data.start_indices, data.sbits, data.sbuf,
                  data.flat_array, data.fbuf))

\* RaggedArray(other), datatypes.py:170-172: both buffers are copied.
FromRaggedArray(data, sbuf, fbuf) ==
    Ok(RA(data.start_indices, data.sdtype, sbuf, data.flat_array, fbuf))

\* ------------------------------------------------------------------------
\* The sequence branch of __init__, datatypes.py:173-213
\* ------------------------------------------------------------------------
ElemLen(v) == IF missing(v) THEN 0 ELSE Len(v.array)

RECURSIVE BufferLen(_)
BufferLen(data) ==
    IF data = <<>> THEN 0 ELSE ElemLen(Head(data)) + BufferLen(Tail(data))

\* for nbits in [8, 16, 32, 64]: ... if buffer_len <= max_supported: break
RECURSIVE StartIndicesDtype(_, _)
StartIndicesDtype(buffer_len, k) ==
    IF k = Len(Widths) \/ Fits(buffer_len, Widths[k]) THEN Widths[k]
    ELSE StartIndicesDtype(buffer_len, k + 1)

\* The populate loop: i is the next position, next_start_ind the running
\* offset, si / fa the arrays filled so far.
RECURSIVE Populate(_, _, _, _, _, _)
Populate(data, i, next_start_ind, nbits, si, fa) ==
    IF i > Len(data) THEN [si |-> si, fa |-> fa]
    ELSE LET array_el == data[i]
             n == ElemLen(array_el)
         IN Populate(data, i + 1, next_start_ind + n, nbits,
                     Append(si, Wrap(next_start_ind, nbits)),
                     IF n = 0 THEN fa ELSE fa \o array_el.array)

\* A faulty constructor that gives missing elements no position.
FromSequenceDroppingMissing(data, sbuf, fbuf) ==
    LET kept == SelectSeq(data, LAMBDA v : ~missing(v))
        nbits == StartIndicesDtype(BufferLen(kept), 1)
        p == Populate(kept, 1, 0, nbits, <<>>, <<>>)
    IN Ok(RA(p.si, nbits, sbuf, p.fa, fbuf))

\* The container built from data; sbuf and fbuf are the two buffers np.zeros
\* allocates.  Storing a missing element assigns to an empty slice and
\* changes nothing.
FromSequence(data, sbuf, fbuf) ==
    LET nbits == StartIndicesDtype(BufferLen(data), 1)
        p == Populate(data, 1, 0, nbits, <<>>, <<>>)
    IN Ok(RA(p.si, nbits, sbuf, p.fa, fbuf))

\* ------------------------------------------------------------------------
\* __getitem__ with an integer, datatypes.py:261-276
\* ------------------------------------------------------------------------
GetItem(c, item0) ==
    IF item0 < -RaggedLen(c) \/ item0 >= RaggedLen(c)
    THEN [err |-> "IndexError", el |-> NaN]
    ELSE LET item == IF item0 < 0 THEN RaggedLen(c) + item0 ELSE item0
             slice_start == c.start_indices[item + 1]
             slice_end == IF item + 1 <= RaggedLen(c) - 1
                          THEN c.start_indices[item + 2]
                          ELSE Len(c.flat_array)
         IN [err |-> "none",
             el |-> IF slice_end # slice_start
                    THEN Arr(PySlice(c.flat_array, slice_start, slice_end))
                    ELSE NaN]

\* list(self) / [v for v in self]: every element by position.
Materialize(c) == [i \in 1..RaggedLen(c) |-> GetItem(c, i - 1).el]

\* ------------------------------------------------------------------------
\* isna, datatypes.py:536-550
\* ------------------------------------------------------------------------
\* A faulty isna that takes every range of length <= 0 for missing.
IsnaNonPositive(c) ==
    LET stop_indices == Tail(c.start_indices \o <<0>>) \o <<Len(c.flat_array)>>
    IN [i \in 1..RaggedLen(c) |-> stop_indices[i] - c.start_indices[i] <= 0]

isna(c) ==
    LET \* np.hstack([start_indices[1:], [len(flat_array)]])
        stop_indices == IF c.start_indices = <<>>
                        THEN <<Len(c.flat_array)>>
                        ELSE Tail(c.start_indices) \o <<Len(c.flat_array)>>
        \* stop_indices - start_indices (signed; shape (1,) against (0,)
        \* broadcasts to the empty array)
        element_lengths == [i \in 1..RaggedLen(c) |->
                               stop_indices[i] - c.start_indices[i]]
    IN [i \in 1..RaggedLen(c) |-> element_lengths[i] = 0]

\* ------------------------------------------------------------------------
\* __getitem__ with a slice or a boolean mask, datatypes.py:278-294
\* ------------------------------------------------------------------------
\* A Python slice; a bound that is None has has = FALSE.
Bound(v) == [has |-> TRUE, v |-> v]
NoBound == [has |-> FALSE, v |-> 0]
Slice(start, stop, step) == [start |-> start, stop |-> stop, step |-> step]

\* One bound of a slice adjusted to a sequence of length n (CPython's
\* PySlice_AdjustIndices).
AdjustIndex(b, n, step, default) ==
    IF ~b.has THEN default
    ELSE IF b.v < 0
         THEN IF b.v + n < 0 THEN (IF step < 0 THEN -1 ELSE 0) ELSE b.v + n
         ELSE IF b.v >= n THEN (IF step < 0 THEN n - 1 ELSE n) ELSE b.v

RECURSIVE SliceRange(_, _, _)
SliceRange(start, stop, step) ==
    IF (step > 0 /\ start >= stop) \/ (step < 0 /\ start <= stop) THEN <<>>
    ELSE <<start>> \o SliceRange(start + step, stop, step)

\* np.arange(n)[item]
SelectedIndices(n, item) ==
    LET start == AdjustIndex(item.start, n, item.step,
                             IF item.step < 0 THEN n - 1 ELSE 0)
        stop == AdjustIndex(item.stop, n, item.step,
                            IF item.step < 0 THEN -1 ELSE n)
    IN SliceRange(start, stop, item.step)

GetSlice(c, item, sbuf, fbuf) ==
    LET selected_indices == SelectedIndices(RaggedLen(c), item)
        data == [k \in 1..Len(selected_indices) |->
                    GetItem(c, selected_indices[k]).el]
    IN FromSequence(data, sbuf, fbuf)

\* The positions i (0-based, ascending) with item[i] true.
RECURSIVE TruePositions(_, _)
TruePositions(item, i) ==
    IF i > Len(item) THEN <<>>
    ELSE (IF item[i] THEN <<i - 1>> ELSE <<>>) \o TruePositions(item, i + 1)

GetMask(c, item, sbuf, fbuf) ==
    LET pos == TruePositions(item, 1)
        got == [k \in 1..Len(pos) |-> GetItem(c, pos[k])]
    IN IF \E k \in 1..Len(got) : got[k].err # "none"
       THEN Raise("IndexError", "out of bounds")
       ELSE FromSequence([k \in 1..Len(got) |-> got[k].el], sbuf, fbuf)

\* ------------------------------------------------------------------------
\* take, datatypes.py:552-597
\* ------------------------------------------------------------------------
\* A faulty take that reads every index positionally, whatever allow_fill.
TakeIgnoringFill(c, indices, allow_fill, fill_value, sbuf, fbuf) ==
    LET got == [j \in 1..Len(indices) |-> GetItem(c, indices[j])]
    IN IF RaggedLen(c) = 0 /\ Len(indices) > 0
       THEN Raise("IndexError", "cannot do a non-empty take")
       ELSE IF \E j \in 1..Len(got) : got[j].err # "none"
       THEN Raise("IndexError", "out of bounds")
       ELSE FromSequence([j \in 1..Len(got) |-> got[j].el], sbuf, fbuf)

Take(c, indices, allow_fill, fill_value, sbuf, fbuf) ==
    IF allow_fill
    THEN LET invalid_inds == SelectSeq(indices, LAMBDA i : i < -1)
             got == [j \in 1..Len(indices) |->
                        IF indices[j] >= 0 THEN GetItem(c, indices[j])
                        ELSE [err |-> "none", el |-> fill_value]]
         IN IF invalid_inds # <<>>
            THEN Raise("ValueError", "invalid indices")
            ELSE IF \E j \in 1..Len(got) : got[j].err # "none"
            THEN Raise("IndexError", "out of bounds")
            ELSE FromSequence([j \in 1..Len(got) |-> got[j].el], sbuf, fbuf)
    ELSE LET got == [j \in 1..Len(indices) |-> GetItem(c, indices[j])]
         IN IF RaggedLen(c) = 0 /\ Len(indices) > 0
            THEN Raise("IndexError", "cannot do a non-empty take")
            ELSE IF \E j \in 1..Len(got) : got[j].err # "none"
            THEN Raise("IndexError", "out of bounds")
            ELSE FromSequence([j \in 1..Len(got) |-> got[j].el], sbuf, fbuf)

\* ------------------------------------------------------------------------
\* copy, datatypes.py:599-620
\* ------------------------------------------------------------------------
Copy(c, deep, sbuf, fbuf) ==
    LET data == IF deep
                THEN \* {k: v.copy() ...}: two new buffers
                     RawPair(c.start_indices, "u", c.sdtype, 1, sbuf,
                             c.flat_array, 1, fbuf)
                ELSE RawPair(c.start_indices, "u", c.sdtype, 1, c.sbuf,
                             c.flat_array, 1, c.fbuf)
    IN FromRawPair(data)

\* ------------------------------------------------------------------------
\* _concat_same_type, datatypes.py:622-647
\* ------------------------------------------------------------------------
\* np.min_scalar_type of a non-negative integer: the narrowest unsigned width.
RECURSIVE MinScalarBits(_, _)
MinScalarBits(x, k) ==
    IF k = Len(Widths) \/ Fits(x, Widths[k]) THEN Widths[k]
    ELSE MinScalarBits(x, k + 1)

\* offsets = np.hstack([[0], np.cumsum([len(ra.flat_array) for ra in
\* to_concat[:-1]])]); np.cumsum([]) is a float64 array, so with a single
\* container the offsets are floats.
RECURSIVE FlatLenBefore(_, _)
FlatLenBefore(to_concat, k) ==
    IF k <= 1 THEN 0
    ELSE Len(to_concat[k - 1].flat_array) + FlatLenBefore(to_concat, k - 1)

OffsetsKind(to_concat) == IF Len(to_concat) <= 1 THEN "f" ELSE "i"

\* ra.start_indices + offset: an unsigned array plus a numpy scalar.  With
\* an integer scalar the result keeps an unsigned type wide enough for the
\* array's type and for the scalar's value, and the sums wrap in it; with a
\* float scalar the result is a float array.
AddOffset(ra, offset, okind) ==
    IF okind = "f"
    THEN [kind |-> "f", bits |-> 64,
          a |-> [i \in 1..Len(ra.start_indices) |-> ra.start_indices[i] + offset]]
    ELSE LET bits == Max(ra.sdtype, MinScalarBits(offset, 1))
         IN [kind |-> "u", bits |-> bits,
             a |-> [i \in 1..Len(ra.start_indices) |->
                       Wrap(ra.start_indices[i] + offset, bits)]]

RECURSIVE HStackFlat(_)
HStackFlat(to_concat) ==
    IF to_concat = <<>> THEN <<>>
    ELSE Head(to_concat).flat_array \o HStackFlat(Tail(to_concat))

\* np.hstack of the shifted start_indices arrays: contents in order, the
\* common dtype of the parts.
RECURSIVE HStackStart(_, _)
HStackStart(to_concat, k) ==
    IF k > Len(to_concat) THEN [kind |-> "u", bits |-> 8, a |-> <<>>]
    ELSE LET part == AddOffset(to_concat[k], FlatLenBefore(to_concat, k),
                               OffsetsKind(to_concat))
             rest == HStackStart(to_concat, k + 1)
         IN [kind |-> IF part.kind = "f" \/ rest.kind = "f" THEN "f" ELSE "u",
             bits |-> Max(part.bits, rest.bits),
             a |-> part.a \o rest.a]

ConcatSameType(to_concat, sbuf, fbuf) ==
    IF to_concat = <<>>
    THEN Raise("ValueError", "need at least one array to concatenate")
    ELSE LET flat_array == HStackFlat(to_concat)
             start_indices == HStackStart(to_concat, 1)
         IN FromRawPair(RawPair(start_indices.a, start_indices.kind,
                                start_indices.bits, 1, sbuf,
                                flat_array, 1, fbuf))

\* ------------------------------------------------------------------------
\* shift, datatypes.py:427-482
\* ------------------------------------------------------------------------
Shift(c, periods, fill_value0, sbuf, fbuf) ==
    IF RaggedLen(c) = 0 \/ periods = 0 THEN Copy(c, FALSE, sbuf, fbuf)
    ELSE LET fill_value == IF fill_value0.kind = "None" THEN NaN ELSE fill_value0
             empty == FromSequence(
                          [k \in 1..Min(Abs(periods), RaggedLen(c)) |-> fill_value],
                          sbuf, fbuf).ra
             a == IF periods > 0 THEN empty
                  ELSE GetSlice(c, Slice(Bound(Abs(periods)), NoBound, 1),
                                sbuf, fbuf).ra
             b == IF periods > 0
                  THEN GetSlice(c, Slice(NoBound, Bound(-periods), 1),
                                sbuf, fbuf).ra
                  ELSE empty
         IN ConcatSameType(<<a, b>>, sbuf, fbuf)

\* ------------------------------------------------------------------------
\* fillna, datatypes.py:368-425
\* ------------------------------------------------------------------------
\* pandas' validate_fillna_kwargs: exactly one of value / method.
ValidateFillnaKwargs(value, method) ==
    IF value.kind = "None" /\ method = "None" THEN "ValueError"
    ELSE IF value.kind # "None" /\ method # "None" THEN "ValueError"
    ELSE "none"

\* pandas' pad_1d (forward fill in place): val is the last valid value,
\* fill_count the fills done since it; limit 0 stands for limit=None.
RECURSIVE PadLoop(_, _, _, _, _, _)
PadLoop(values, mask, lim, i, val, fill_count) ==
    IF i > Len(values) THEN values
    ELSE IF mask[i]
         THEN IF fill_count >= lim
              THEN PadLoop(values, mask, lim, i + 1, val, fill_count)
              ELSE PadLoop([values EXCEPT ![i] = val], mask, lim, i + 1, val,
                           fill_count + 1)
         ELSE PadLoop(values, mask, lim, i + 1, values[i], 0)

Reverse(s) == [i \in 1..Len(s) |-> s[Len(s) + 1 - i]]

Pad1d(values, limit, mask) ==
    IF values = <<>> THEN values
    ELSE PadLoop(values, mask, IF limit = 0 THEN Len(values) ELSE limit,
                 1, values[1], 0)

\* pandas' backfill_1d: the same scan from the end.
Backfill1d(values, limit, mask) ==
    Reverse(Pad1d(Reverse(values), limit, Reverse(mask)))

AnyTrue(mask) == \E i \in 1..Len(mask) : mask[i]

\* fillna with value an array, np.nan or None, and a method.
Fillna(c, value, method, limit, sbuf, fbuf) ==
    IF ValidateFillnaKwargs(value, method) # "none"
    THEN Raise("ValueError", "fillna kwargs")
    ELSE LET mask == isna(c)
         IN IF AnyTrue(mask)
            THEN IF method # "None"
                 THEN FromSequence(
                          IF method = "pad"
                          THEN Pad1d(Materialize(c), limit, mask)
                          ELSE Backfill1d(Materialize(c), limit, mask),
                          sbuf, fbuf)
                 ELSE FromSequence(
                          [i \in 1..RaggedLen(c) |->
                              IF mask[i] THEN value ELSE Materialize(c)[i]],
                          sbuf, fbuf)
            ELSE Copy(c, FALSE, sbuf, fbuf)

\* The items a RaggedArray holds when it stands as ONE element of the
\* sequence given to the constructor (what fillna does with a RaggedArray
\* value): len(value) slots of the flat array are reserved for it and
\* flat_array[a:a+len(value)] = value converts it with np.asarray.
\*   - every item np.nan: a float array of len(value) NaNs is stored;
\*   - one item, an array of length 1: its number is stored;
\*   - items that are arrays of one common length otherwise: the 2-D array
\*     cannot be broadcast into the 1-D slice (ValueError);
\*   - items of different shapes: numpy either refuses the ragged nesting
\*     (ValueError) or builds an object array and stores the items as
\*     Python objects, depending on its version.
ObjectItem == -2

AllNaN(items) == \A k \in 1..Len(items) : items[k].kind = "nan"
AllArraysOfLen(items, n) ==
    \A k \in 1..Len(items) : items[k].kind = "array" /\ Len(items[k].array) = n

\* The set of outcomes of storing value: "error", or the numbers stored.
StoreRagged(value) ==
    LET items == Materialize(value)
    IN IF AllNaN(items)
       THEN {[err |-> "none", stored |-> [k \in 1..Len(items) |-> NaNScalar]]}
       ELSE IF Len(items) = 1 /\ AllArraysOfLen(items, 1)
       THEN {[err |-> "none", stored |-> items[1].array]}
       ELSE IF \E n \in 1..Len(value.flat_array) : AllArraysOfLen(items, n)
       THEN {[err |-> "ValueError", stored |-> <<>>]}
       ELSE {[err |-> "ValueError", stored |-> <<>>],
             [err |-> "none", stored |-> [k \in 1..Len(items) |-> ObjectItem]]}

\* fillna with value a RaggedArray: the set of possible results.
FillnaRagged(c, value0, sbuf, fbuf) ==
    LET mask == isna(c)
    IN IF RaggedLen(value0) # RaggedLen(c)
       THEN {Raise("ValueError", "Length of 'value' does not match")}
       ELSE LET value == GetMask(value0, mask, sbuf, fbuf).ra
            IN IF AnyTrue(mask)
               THEN {IF w.err # "none"
                     THEN Raise(w.err, "could not store value")
                     ELSE FromSequence(
                              [i \in 1..RaggedLen(c) |->
                                  IF mask[i] THEN Arr(w.stored)
                                  ELSE Materialize(c)[i]],
                              sbuf, fbuf)
                     : w \in StoreRagged(value)}
               ELSE {Copy(c, FALSE, sbuf, fbuf)}

\* ------------------------------------------------------------------------
\* unique, datatypes.py:343-366, and RaggedElement, datatypes.py:70-103
\* ------------------------------------------------------------------------
\* np.array_equal of two 1-D arrays (NaN is not equal to NaN).
ArrayEqual(a, b) ==
    /\ Len(a) = Len(b)
    /\ \A i \in 1..Len(a) : a[i] = b[i] /\ a[i] # NaNScalar

\* Equality of two entries of the RaggedElement array as pandas.unique's
\* hash table sees them: RaggedElement.__eq__, and NaN floats as one key.
SameKey(x, y) ==
    \/ x.kind = "nan" /\ y.kind = "nan"
    \/ x.kind = "array" /\ y.kind = "array" /\ ArrayEqual(x.array, y.array)

RECURSIVE UniqueLoop(_, _, _)
UniqueLoop(values, i, uniques) ==
    IF i > Len(values) THEN uniques
    ELSE UniqueLoop(values, i + 1,
                    IF \E k \in 1..Len(uniques) : SameKey(uniques[k], values[i])
                    THEN uniques ELSE Append(uniques, values[i]))

Unique(c, sbuf, fbuf) ==
    FromSequence(UniqueLoop(Materialize(c), 1, <<>>), sbuf, fbuf)

\* ------------------------------------------------------------------------
\* astype, datatypes.py:661-672
\* ------------------------------------------------------------------------
\* What pandas_dtype(dtype) resolves to: the ragged dtype, another
\* registered extension dtype, or a plain numpy dtype.
RaggedDtype == [kind |-> "ragged", name |-> "ragged"]
ExtensionDtype(name) == [kind |-> "extension", name |-> name]
PlainDtype(name) == [kind |-> "plain", name |-> name]

is_extension_array_dtype(dtype) == dtype.kind \in {"ragged", "extension"}

\* What astype returns or raises.  kind tells what was returned: "self"
\* (the receiver itself), "ragged" (another container, ra), "ndarray" or
\* "extension" (value, the elements it was built from; type, the dtype).
\* delegate is the container the target type's _from_sequence built during
\* the call, if it was called.
NoDelegate == [type |-> "-", scalars |-> <<>>]
Delegate(dtype, scalars) == [type |-> dtype.name, scalars |-> scalars]
AstypeResult(err, kind, ra, type, value, delegate) ==
    [err |-> err, msg |-> "", kind |-> kind, ra |-> ra, type |-> type,
     value |-> value, delegate |-> delegate]

\* The elements all have one shape: np.asarray of them is a regular array.
Homogeneous(els) ==
    \/ \A i \in 1..Len(els) : missing(els[i])
    \/ \A i, j \in 1..Len(els) :
          /\ ~missing(els[i])
          /\ ~missing(els[j])
          /\ Len(els[i].array) = Len(els[j].array)

\* np.asarray(self), through the sequence protocol: the elements of c; on
\* elements of different shapes numpy either makes an object array of them
\* or raises ValueError, depending on its version.
NpAsarray(c) ==
    {[err |-> "none", value |-> Materialize(c)]}
    \cup (IF Homogeneous(Materialize(c)) THEN {}
          ELSE {[err |-> "ValueError", value |-> <<>>]})

\* np.array([v for v in self], dtype=dtype, copy=copy): numpy cannot
\* interpret an extension dtype as a data type.
NpArray(c, dtype, delegate) ==
    IF dtype.kind = "plain"
    THEN AstypeResult("none", "ndarray", NoRA, dtype.name, Materialize(c),
                      delegate)
    ELSE AstypeResult("TypeError", "-", NoRA, "-", <<>>, delegate)

\* The outcomes of self.astype(dtype, copy).
Astype(c, dtype, copy, sbuf, fbuf) ==
    IF dtype.kind = "ragged"
    THEN IF copy
         THEN {AstypeResult("none", "ragged", Copy(c, FALSE, sbuf, fbuf).ra,
                            "ragged", <<>>, NoDelegate)}
         ELSE {AstypeResult("none", "self", c, "ragged", <<>>, NoDelegate)}
    ELSE IF is_extension_array_dtype(dtype)
    THEN {IF a.err # "none"
          THEN AstypeResult(a.err, "-", NoRA, "-", <<>>, NoDelegate)
          ELSE NpArray(c, dtype, Delegate(dtype, a.value)) :
             a \in NpAsarray(c)}
    ELSE {NpArray(c, dtype, NoDelegate)}

\* ------------------------------------------------------------------------
\* State
\* ------------------------------------------------------------------------
VARIABLES
    self,   \* the container operations are applied to (NoRA before any is built)
    op,     \* "new": nothing built yet; "idle": between two calls;
            \* otherwise the call that has just returned
    arg,    \* the arguments of that call
    out     \* its result: the exception raised, or the container returned

vars == <<self, op, arg, out>>

\* ------------------------------------------------------------------------
\* Inputs
\* ------------------------------------------------------------------------
Arrays == {[i \in 1..n |-> v] : n \in 0..MaxElemLen, v \in Vals}
Elems == {Arr(a) : a \in Arrays} \cup {NaN, None}
SeqInputs == UNION {[1..n -> Elems] : n \in 0..MaxN}

FillValues == {None, NaN, Arr(<<>>), Arr(<<1>>)}

RawFlats == {[i \in 1..n |-> ((i - 1) % 2) + 1] : n \in 0..MaxElemLen}
\* dtype kind and rank of start_indices, rank of flat_array
RawShapes == {<<"u", 1, 1>>, <<"i", 1, 1>>, <<"f", 1, 1>>,
              <<"u", 2, 1>>, <<"u", 1, 2>>}
RawBits == {8, 16}
\* offsets arrays: every short one, and arrays longer than ReportLimit
\* that are zero except possibly at one position
RawStarts(v) ==
    UNION {[1..n -> 0..(v + 1)] : n \in 0..MaxN}
    \cup {[i \in 1..(ReportLimit + 1) |-> IF i = p THEN x ELSE 0] :
             p \in {1, ReportLimit + 1}, x \in {0, v + 1}}
RawInputs ==
    {RawPair(si, sh[1], b, sh[2], 2, fa, sh[3], 3) :
        si \in UNION {RawStarts(Len(f)) : f \in RawFlats},
        fa \in RawFlats, sh \in RawShapes, b \in RawBits}

Indices == (-(MaxN + 1))..MaxN
IndexLists ==
    {<<>>} \cup {<<i>> : i \in Indices}
    \cup {<<i, j>> : i \in Indices, j \in {-1, 0, MaxN - 1}}
SliceBounds == {NoBound, Bound(-1), Bound(1), Bound(MaxN)}
Slices == {Slice(a, b, st) : a \in SliceBounds, b \in SliceBounds,
                             st \in {1, -1, 2}}
Periods == (-(MaxN + 1))..(MaxN + 1)
RaggedValues ==
    {FromSequence(d, 2, 3).ra :
        d \in UNION {[1..n -> {NaN, Arr(<<1>>), Arr(<<2, 2>>)}] : n \in 0..MaxN}}
Others == {FromSequence(d, 2, 3).ra :
              d \in {<<>>, <<NaN>>, <<Arr(<<1>>)>>, <<Arr(<<2, 2>>), NaN>>}}

\* ------------------------------------------------------------------------
\* Steps
\* ------------------------------------------------------------------------
\* Buffers are named relative to the receiver: the receiver's are 0 and 1,
\* and a container that becomes the receiver has its buffers renamed.
AsReceiver(ra) == [ra EXCEPT !.sbuf = 0, !.fbuf = 1]

\* A result is worked on further while it stays within the bounds.
Within(ra) ==
    /\ RaggedLen(ra) <= MaxN
    /\ Len(ra.flat_array) <= MaxFlat
    /\ \A k \in 1..Len(ra.flat_array) : ra.flat_array[k] \in Vals

NoArg == [none |-> TRUE]
NoOut == Raise("-", "")

\* A call returns: the receiver is left as it is.
Step(name, a, result) ==
    /\ op' = name
    /\ arg' = a
    /\ out' = result
    /\ UNCHANGED self

Init ==
    /\ self = NoRA
    /\ op = "new"
    /\ arg = NoArg
    /\ out = NoOut

\* RaggedArray(sequence)
NewFromSequence ==
    /\ op = "new"
    /\ \E data \in SeqInputs :
        Step("from_sequence", [data |-> data], FromSequence(data, 2, 3))

\* RaggedArray({start_indices, flat_array})
NewFromRawPair ==
    /\ op = "new"
    /\ \E data \in RawInputs :
        Step("from_raw", [data |-> data], FromRawPair(data))

\* RaggedArray(self)
NewFromRaggedArray ==
    /\ op = "idle"
    /\ Step("from_ragged", NoArg,
            FromRaggedArray(self, FreshS(self), FreshF(self)))

DoGetSlice ==
    /\ op = "idle"
    /\ \E item \in Slices :
        Step("slice", [item |-> item],
             GetSlice(self, item, FreshS(self), FreshF(self)))

DoGetMask ==
    /\ op = "idle"
    /\ RaggedLen(self) <= MaxN
    /\ \E item \in [1..RaggedLen(self) -> BOOLEAN] :
        Step("mask", [item |-> item],
             GetMask(self, item, FreshS(self), FreshF(self)))

DoTake ==
    /\ op = "idle"
    /\ \E indices \in IndexLists, allow_fill \in BOOLEAN,
          fill_value \in FillValues :
        /\ ~allow_fill => fill_value = None
        /\ Step("take", [indices |-> indices, allow_fill |-> allow_fill,
                         fill_value |-> fill_value],
                Take(self, indices, allow_fill, fill_value,
                     FreshS(self), FreshF(self)))

DoFillna ==
    /\ op = "idle"
    /\ \E value \in FillValues, method \in {"None", "pad", "backfill"},
          limit \in 0..1 :
        Step("fillna", [value |-> value, method |-> method, limit |-> limit],
             Fillna(self, value, method, limit, FreshS(self), FreshF(self)))

DoFillnaRagged ==
    /\ op = "idle"
    /\ \E value \in RaggedValues :
        /\ RaggedLen(value) \in {0, RaggedLen(self)}
        /\ \E result \in FillnaRagged(self, value, FreshS(self), FreshF(self)) :
            Step("fillna_ragged", [value |-> value], result)

DoShift ==
    /\ op = "idle"
    /\ \E periods \in Periods, fill_value \in FillValues :
        Step("shift", [periods |-> periods, fill_value |-> fill_value],
             Shift(self, periods, fill_value, FreshS(self), FreshF(self)))

DoConcat ==
    /\ op = "idle"
    /\ \E x \in Others :
        \E to_concat \in {<<>>, <<self>>, <<self, self>>, <<self, x>>,
                          <<x, self>>, <<self, x, self>>} :
            Step("concat", [to_concat |-> to_concat],
                 ConcatSameType(to_concat, FreshS(self), FreshF(self)))

DoUnique ==
    /\ op = "idle"
    /\ Step("unique", NoArg, Unique(self, FreshS(self), FreshF(self)))

DoCopy ==
    /\ op = "idle"
    /\ \E deep \in BOOLEAN :
        Step("copy", [deep |-> deep],
             Copy(self, deep, FreshS(self), FreshF(self)))

\* The caller goes on, with the container the call returned or with the one
\* it had.
Continue ==
    /\ op \notin {"new", "idle"}
    /\ \/ /\ out.err = "none"
          /\ Within(out.ra)
          /\ self' = AsReceiver(out.ra)
       \/ UNCHANGED self
    /\ op' = IF self' = NoRA THEN "new" ELSE "idle"
    /\ arg' = NoArg
    /\ out' = NoOut

Next ==
    \/ NewFromSequence
    \/ NewFromRawPair
    \/ NewFromRaggedArray
    \/ DoGetSlice
    \/ DoGetMask
    \/ DoTake
    \/ DoFillna
    \/ DoFillnaRagged
    \/ DoShift
    \/ DoConcat
    \/ DoUnique
    \/ DoCopy
    \/ Continue

Spec == Init /\ [][Next]_vars

\* ------------------------------------------------------------------------
\* Concatenation and shift of containers with long flat arrays
\* ------------------------------------------------------------------------
\* start_indices of such containers are uint8 arrays whose sums with an
\* offset can pass 255.
WideLens == {1, 100, 200}
WideArr(n) == Arr([i \in 1..n |-> ((i - 1) % 2) + 1])
WideElems == {WideArr(n) : n \in WideLens} \cup {NaN}
WidePool(maxlen) ==
    {AsReceiver(FromSequence(d, 0, 1).ra) :
        d \in UNION {[1..n -> WideElems] : n \in 0..maxlen}}
WideFills == {None, WideArr(100)}

InitWide == Init

\* RaggedArray(sequence) of long arrays
WideNew ==
    /\ op = "new"
    /\ \E c \in WidePool(3) :
        /\ self' = c
        /\ op' = "idle"
        /\ UNCHANGED <<arg, out>>

WideConcat ==
    /\ op = "idle"
    /\ \E x \in WidePool(1) :
        \E to_concat \in {<<self>>, <<self, x>>, <<x, self>>} :
            Step("concat", [to_concat |-> to_concat],
                 ConcatSameType(to_concat, FreshS(self), FreshF(self)))

\* concat([concat([a, b]), c]), concat([a, concat([b, c])]), concat([a, b, c])
WideAssoc ==
    /\ op = "idle"
    /\ \E b \in WidePool(1), c \in WidePool(2) :
        LET a == self
            ab == ConcatSameType(<<a, b>>, 2, 3)
            bc == ConcatSameType(<<b, c>>, 2, 3)
        IN Step("assoc", [a |-> a, b |-> b, c |-> c],
                [inner |-> {ab.err, bc.err},
                 left |-> ConcatSameType(<<ab.ra, c>>, 4, 5),
                 right |-> ConcatSameType(<<a, bc.ra>>, 4, 5),
                 all |-> ConcatSameType(<<a, b, c>>, 4, 5)])

WideShift ==
    /\ op = "idle"
    /\ \E periods \in -3..3, fill_value \in WideFills :
        Step("shift", [periods |-> periods, fill_value |-> fill_value],
             Shift(self, periods, fill_value, FreshS(self), FreshF(self)))

NextWide ==
    \/ WideNew
    \/ WideConcat
    \/ WideAssoc
    \/ WideShift

SpecWide == InitWide /\ [][NextWide]_vars

\* ------------------------------------------------------------------------
\* unique on containers of up to MaxN + 1 elements built from raw pairs the
\* constructor accepts, offsets in any order
\* ------------------------------------------------------------------------
UniqueFlats == UNION {[1..n -> Vals] : n \in 0..MaxElemLen}
UniqueInputs ==
    {RawPair(si, "u", 8, 1, 2, fa, 1, 3) :
        si \in UNION {[1..n -> 0..MaxElemLen] : n \in 0..(MaxN + 1)},
        fa \in UniqueFlats}

InitUnique ==
    /\ \E data \in UniqueInputs :
          /\ FromRawPair(data).err = "none"
          /\ self = AsReceiver(FromRawPair(data).ra)
    /\ op = "idle"
    /\ arg = NoArg
    /\ out = NoOut

\* The caller goes on with the container unique returned.
UniqueAgain ==
    /\ op = "unique"
    /\ out.err = "none"
    /\ self' = AsReceiver(out.ra)
    /\ op' = "idle"
    /\ arg' = NoArg
    /\ out' = NoOut

NextUnique ==
    \/ DoUnique
    \/ UniqueAgain

SpecUnique == InitUnique /\ [][NextUnique]_vars

\* ------------------------------------------------------------------------
\* astype on the same containers
\* ------------------------------------------------------------------------
Dtypes ==
    {RaggedDtype, ExtensionDtype("category"), ExtensionDtype("Int64"),
     PlainDtype("object")}

InitAstype == InitUnique

DoAstype ==
    /\ op = "idle"
    /\ \E dtype \in Dtypes, copy \in BOOLEAN :
        \E result \in Astype(self, dtype, copy, FreshS(self), FreshF(self)) :
            Step("astype", [dtype |-> dtype, copy |-> copy], result)

\* The caller goes on, with the container astype returned if it returned
\* one.
AstypeDone ==
    /\ op = "astype"
    /\ self' = IF out.err = "none" /\ out.kind \in {"self", "ragged"}
               THEN AsReceiver(out.ra) ELSE self
    /\ op' = "idle"
    /\ arg' = NoArg
    /\ out' = NoOut

NextAstype ==
    \/ DoAstype
    \/ AstypeDone

SpecAstype == InitAstype /\ [][NextAstype]_vars

\* ------------------------------------------------------------------------
\* Properties
\* ------------------------------------------------------------------------
\* What positional access returns for every position of c, 0-based position
\* i at index i + 1.
Elements(c) == [i \in 1..RaggedLen(c) |-> GetItem(c, i - 1).el]

\* x, a value positional access returned, is exactly the value y: the
\* missing sentinel where y is missing, an equal array where y is an array.
Exactly(x, y) ==
    IF missing(y) THEN x = NaN ELSE x = Arr(y.array)

\* The same, with an array of length 0 read back as the missing sentinel.
ExactlyOrEmpty(x, y) ==
    IF missing(y) \/ y.array = <<>> THEN x = NaN ELSE x = Arr(y.array)

\* A constructor or an operation has just returned a container.
Returned == op \notin {"new", "idle", "assoc"} /\ out.err = "none"

\* Invariant A and the length of a container.
BoundsInv(c) ==
    /\ \A i \in 1..Len(c.start_indices) :
          c.start_indices[i] <= Len(c.flat_array)
    /\ RaggedLen(c) = Len(c.start_indices)

\* C1 as stated: the container built from a sequence of arrays (of any
\* length, length 0 included) and missing values has the sequence's length
\* and positional access returns exactly the source element at every position.
C1_RoundTrip_AsStated ==
    op = "from_sequence" =>
        /\ out.err = "none"
        /\ RaggedLen(out.ra) = Len(arg.data)
        /\ \A i \in 1..Len(arg.data) :
              Exactly(GetItem(out.ra, i - 1).el, arg.data[i])

\* C1 amended: the same for source arrays of length >= 1 and missing values;
\* a source array of length 0 is read back as the missing sentinel.
C1_RoundTrip ==
    op = "from_sequence" =>
        /\ out.err = "none"
        /\ RaggedLen(out.ra) = Len(arg.data)
        /\ \A i \in 1..Len(arg.data) :
              ExactlyOrEmpty(GetItem(out.ra, i - 1).el, arg.data[i])

C1_Witness ==
    /\ op = "from_sequence"
    /\ Len(arg.data) = MaxN
    /\ \E i, j \in 1..Len(arg.data) :
          /\ i < j
          /\ missing(arg.data[i])
          /\ arg.data[j].kind = "array" /\ Len(arg.data[j].array) = MaxElemLen
          /\ GetItem(out.ra, j - 1).el = arg.data[j]

\* C2: every container a constructor or an operation returns, from any
\* sequence of operations, has every start offset <= the length of its flat
\* array, and its length is the length of its offsets array.
C2_BoundsInvariant ==
    /\ op = "idle" => BoundsInv(self)
    /\ Returned => BoundsInv(out.ra)

C2_Witness ==
    /\ op = "concat"
    /\ Len(arg.to_concat) = 3
    /\ out.err = "none"
    /\ RaggedLen(out.ra) > MaxN
    /\ \E i \in 1..RaggedLen(out.ra) :
          out.ra.start_indices[i] = Len(out.ra.flat_array)
    /\ \E i \in 1..RaggedLen(self) - 1 :
          self.start_indices[i] > self.start_indices[i + 1]

\* The raw pair is well formed: both arrays 1-D, unsigned offsets, every
\* offset <= the length of the values.
WellFormed(data) ==
    /\ data.sndim = 1
    /\ data.fndim = 1
    /\ data.skind = "u"
    /\ \A i \in 1..Len(data.start_indices) :
          data.start_indices[i] <= Len(data.flat_array)

\* C3: construction from a raw pair succeeds, wrapping the two given
\* buffers as they are, exactly when the pair is well formed, and fails
\* with a ValueError, producing no container, in every other case.
C3_RawPairAccepted_AsStated ==
    op = "from_raw" =>
        IF WellFormed(arg.data)
        THEN /\ out.err = "none"
             /\ out.ra.start_indices = arg.data.start_indices
             /\ out.ra.flat_array = arg.data.flat_array
             /\ out.ra.sbuf = arg.data.sbuf
             /\ out.ra.fbuf = arg.data.fbuf
        ELSE /\ out.err = "ValueError"
             /\ out.ra = NoRA

\* stop_i - offsets[i] of the claim: the next offset, or the length of the
\* values for the last position (i is 0-based).
RangeLength(c, i) ==
    (IF i < RaggedLen(c) - 1 THEN c.start_indices[i + 2]
     ELSE Len(c.flat_array)) - c.start_indices[i + 1]

Missingness(c) ==
    LET na_values == isna(c)
    IN /\ Len(na_values) = RaggedLen(c)
       /\ \A i \in 0..(RaggedLen(c) - 1) :
             /\ na_values[i + 1] <=> (RangeLength(c, i) = 0)
             /\ (RangeLength(c, i) = 0) <=> (GetItem(c, i).el = NaN)
             /\ (RangeLength(c, i) # 0) <=> (GetItem(c, i).el.kind = "array")

\* C4: in every container with offsets <= len(values), monotonic or not,
\* is_missing has length N, is true at i exactly when the range of i has
\* length 0, and that is exactly when positional access returns the
\* missing sentinel rather than an array.
C4_Missingness ==
    /\ op = "idle" => Missingness(self)
    /\ Returned => Missingness(out.ra)

C4_Witness ==
    /\ op = "idle"
    /\ RaggedLen(self) = MaxN
    /\ \E i \in 0..(RaggedLen(self) - 1) : RangeLength(self, i) < 0
    /\ \E i \in 0..(RaggedLen(self) - 1) : RangeLength(self, i) > 0

\* The position in 0..N-1 an index of take stands for when negative indices
\* count from the end.
FromEnd(c, idx) == IF idx < 0 THEN RaggedLen(c) + idx ELSE idx

InRange(c, idx) == -RaggedLen(c) <= idx /\ idx < RaggedLen(c)

\* The output element x is the element y it has to be; with empty_as_missing
\* an array of length 0 has to come out as the missing sentinel.
Same(x, y, empty_as_missing) ==
    IF empty_as_missing THEN ExactlyOrEmpty(x, y) ELSE Exactly(x, y)

\* take per the claim.
TakeClaim(empty_as_missing) ==
    LET c == self
        indices == arg.indices
        fails(err, msg) == out.err = err /\ out.msg = msg /\ out.ra = NoRA
    IN IF ~arg.allow_fill
       THEN IF RaggedLen(c) = 0 /\ indices # <<>>
            THEN fails("IndexError", "cannot do a non-empty take")
            ELSE IF \E j \in 1..Len(indices) : ~InRange(c, indices[j])
            THEN fails("IndexError", "out of bounds")
            ELSE /\ out.err = "none"
                 /\ RaggedLen(out.ra) = Len(indices)
                 /\ \A j \in 1..Len(indices) :
                       Same(GetItem(out.ra, j - 1).el,
                            Elements(c)[FromEnd(c, indices[j]) + 1],
                            empty_as_missing)
       ELSE IF \E j \in 1..Len(indices) : indices[j] < -1
            THEN fails("ValueError", "invalid indices")
            ELSE IF \E j \in 1..Len(indices) : indices[j] >= RaggedLen(c)
            THEN fails("IndexError", "out of bounds")
            ELSE /\ out.err = "none"
                 /\ RaggedLen(out.ra) = Len(indices)
                 /\ \A j \in 1..Len(indices) :
                       Same(GetItem(out.ra, j - 1).el,
                            IF indices[j] = -1 THEN arg.fill_value
                            ELSE Elements(c)[indices[j] + 1],
                            empty_as_missing)

\* C5 as stated: take fails or returns per the claim, and every output
\* position materializes identically to the element (or fill_value) it
\* stands for.
C5_Take_AsStated == op = "take" => TakeClaim(FALSE)

\* C5 amended: the same, except that where the element of c (a range with
\* decreasing offsets) or fill_value is an array of length 0 the output
\* position is missing.
C5_Take == op = "take" => TakeClaim(TRUE)

C5_Witness ==
    /\ op = "take"
    /\ arg.allow_fill
    /\ out.err = "none"
    /\ Len(arg.indices) = 2
    /\ arg.indices[1] = -1 /\ arg.indices[2] = RaggedLen(self) - 1
    /\ arg.fill_value.kind = "array" /\ arg.fill_value.array # <<>>
    /\ RaggedLen(self) = MaxN
    /\ GetItem(out.ra, 0).el = arg.fill_value
    /\ GetItem(out.ra, 1).el.kind = "array"
    /\ GetItem(out.ra, 1).el # arg.fill_value

RECURSIVE ElementsOfAll(_)
ElementsOfAll(to_concat) ==
    IF to_concat = <<>> THEN <<>>
    ELSE Elements(Head(to_concat)) \o ElementsOfAll(Tail(to_concat))

\* C6: concat of a list of containers returns a container whose length is
\* the sum of their lengths and whose positions materialize, in order,
\* identically to the positions of c_0, c_1, ...
C6_Concat_AsStated ==
    (op = "concat" /\ arg.to_concat # <<>>) =>
        /\ out.err = "none"
        /\ Elements(out.ra) = ElementsOfAll(arg.to_concat)

\* C7: concat([concat([a,b]), c]), concat([a, concat([b,c])]) and
\* concat([a,b,c]) have the same length and materialize identically at
\* every position.
C7_ConcatAssociative_AsStated ==
    op = "assoc" =>
        /\ out.inner = {"none"}
        /\ out.left.err = "none" /\ out.right.err = "none" /\ out.all.err = "none"
        /\ Elements(out.left.ra) = Elements(out.all.ra)
        /\ Elements(out.right.ra) = Elements(out.all.ra)

\* C8: shift returns a container of length N whose position i materializes
\* identically to c[i - periods] when 0 <= i - periods < N, and to
\* fill_value (missing when it is not given) otherwise.
C8_Shift_AsStated ==
    op = "shift" =>
        /\ out.err = "none"
        /\ RaggedLen(out.ra) = RaggedLen(self)
        /\ \A i \in 0..(RaggedLen(self) - 1) :
              Exactly(GetItem(out.ra, i).el,
                      IF 0 <= i - arg.periods /\ i - arg.periods < RaggedLen(self)
                      THEN Elements(self)[i - arg.periods + 1]
                      ELSE arg.fill_value)

\* C9: fill_missing with a Ragged Container v of the same length returns a
\* container of length N whose position i materializes identically to v[i]
\* where c[i] is missing and to c[i] where it is not.
C9_FillnaRagged_AsStated ==
    (op = "fillna_ragged" /\ RaggedLen(arg.value) = RaggedLen(self)) =>
        /\ out.err = "none"
        /\ RaggedLen(out.ra) = RaggedLen(self)
        /\ \A i \in 1..RaggedLen(self) :
              Exactly(GetItem(out.ra, i - 1).el,
                      IF missing(Elements(self)[i]) THEN Elements(arg.value)[i]
                      ELSE Elements(self)[i])

\* The call is one of the derivations that change nothing: fill_missing on
\* a container without missing positions, shift by 0 or of an empty container.
NoOpDerivation ==
    \/ /\ op = "fillna"
       /\ ValidateFillnaKwargs(arg.value, arg.method) = "none"
       /\ ~AnyTrue(isna(self))
    \/ /\ op = "shift"
       /\ (arg.periods = 0 \/ RaggedLen(self) = 0)

\* C10: a derivation that changes nothing returns a new container that
\* materializes identically to the receiver and whose two buffers are not
\* the receiver's buffers.
C10_NoOpDeepCopy_AsStated ==
    NoOpDerivation =>
        /\ out.err = "none"
        /\ Elements(out.ra) = Elements(self)
        /\ out.ra.sbuf # self.sbuf
        /\ out.ra.fbuf # self.fbuf

\* Two materialized elements are the same element: both missing, or arrays
\* holding the same value sequence.
Identical(x, y) ==
    \/ missing(x) /\ missing(y)
    \/ ~missing(x) /\ ~missing(y) /\ x.array = y.array

\* The elements e[i..] that no earlier element of e is identical to.
RECURSIVE FirstOccurrences(_, _)
FirstOccurrences(e, i) ==
    IF i > Len(e) THEN <<>>
    ELSE IF \E j \in 1..(i - 1) : Identical(e[j], e[i])
         THEN FirstOccurrences(e, i + 1)
         ELSE <<e[i]>> \o FirstOccurrences(e, i + 1)

\* C11: unique(c) materializes as the elements of c without their later
\* repetitions, the missing entries of c collapsed to one at the place of
\* the first; no two positions of the result hold equal value sequences, at
\* most one is missing, and unique of the result materializes as the result.
C11_Unique_AsStated ==
    op = "unique" =>
        /\ out.err = "none"
        /\ Elements(out.ra) = FirstOccurrences(Elements(self), 1)
        /\ \A i, j \in 1..RaggedLen(out.ra) :
              i < j => ~Identical(Elements(out.ra)[i], Elements(out.ra)[j])
        /\ Elements(Unique(out.ra, 4, 5).ra) = Elements(out.ra)

\* The parts of C11 that fail: the result holds two missing entries, and
\* unique of the result does not materialize as the result.
C11_TwoMissing ==
    op = "unique" =>
        ~(\E i, j \in 1..RaggedLen(out.ra) :
              /\ i < j
              /\ missing(Elements(out.ra)[i])
              /\ missing(Elements(out.ra)[j])
              /\ Elements(Unique(out.ra, 4, 5).ra) # Elements(out.ra))

\* C12: astype to an extension dtype other than the ragged dtype returns
\* the container that dtype's _from_sequence built from the materialized
\* elements of the receiver, and does not take the plain conversion path.
C12_AstypeExtension_AsStated ==
    (op = "astype" /\ arg.dtype.kind = "extension") =>
        /\ out.err = "none"
        /\ out.kind = "extension"
        /\ out.type = arg.dtype.name
        /\ out.value = Elements(self)
        /\ out.delegate = Delegate(arg.dtype, Elements(self))

====
